---- MODULE Spec2Model ----
(***************************************************************************)
(* A model of pmash.c: the prerequisite auditor that forces every watched  *)
(* file's atime behind its mtime, runs a command, walks the watch          *)
(* directories again and lists the files whose atime moved while their     *)
(* mtime did not.                                                          *)
(*                                                                         *)
(* A timestamp is a pair <<tv_sec, tv_nsec>>.  A path is the sequence of   *)
(* its bytes, so that strcmp, strstr and the "./" stripping are computed   *)
(* on the bytes as the code computes them.                                 *)
(***************************************************************************)
EXTENDS Integers, Sequences, FiniteSets, TLC

(***************************************************************************)
(* Bounds of the model.                                                    *)
(***************************************************************************)
\* Largest tv_sec a file of the model carries; the smallest is SentinelAtimeSec.
MaxSec == 1
\* Largest tv_nsec of the model (the code's range is 0..999999999).
MaxNsec == 1
\* Largest number of -V options on the command line.
MaxVerbosity == 1
\* Largest number of file operations the wrapped command performs.
MaxCmdOps == 1

(***************************************************************************)
(* Program constants.                                                      *)
(***************************************************************************)
\* p2->times1[0].tv_sec = -2L
SentinelAtimeSec == -2
\* p2->times1[1].tv_sec = -1L
SentinelMtimeSec == -1
EXIT_SUCCESS == 0
EXIT_FAILURE == 1

Secs == SentinelAtimeSec..MaxSec
Nsecs == 0..MaxNsec
Times == Secs \X Nsecs

\* seconds-then-nanoseconds ordering of two timestamps
TimeLT(x, y) == x[1] < y[1] \/ (x[1] = y[1] /\ x[2] < y[2])

(***************************************************************************)
(* Paths, as byte sequences.  46 '.', 47 '/', 97 'a', 98 'b', 99 'c',      *)
(* 100 'd', 103 'g', 105 'i', 116 't', 115 's', 118 'v', 110 'n',          *)
(* 119 'w', 112 'p'.                                                       *)
(***************************************************************************)
DirDot == <<46>>                        \* "."
DirD == <<100>>                         \* "d"
DirE == <<101>>                         \* "e"
StrGit == <<46, 103, 105, 116>>         \* ".git"
StrSvn == <<46, 115, 118, 110>>         \* ".svn"
StrSwp == <<46, 115, 119, 112>>         \* ".swp"

\* strcmp(3): the sign of the first differing byte, a proper prefix first
RECURSIVE strcmp(_, _)
strcmp(s, t) ==
    IF Len(s) = 0 /\ Len(t) = 0 THEN 0
    ELSE IF Len(s) = 0 THEN -1
    ELSE IF Len(t) = 0 THEN 1
    ELSE IF Head(s) < Head(t) THEN -1
    ELSE IF Head(s) > Head(t) THEN 1
    ELSE strcmp(Tail(s), Tail(t))

\* strstr(3) != NULL
strstr(hay, needle) ==
    \E i \in 1..(Len(hay) - Len(needle) + 1) :
        SubSeq(hay, i, i + Len(needle) - 1) = needle

\* lines 115-117 and 151-153: the version-control and swap-file filter
Excluded(fpath) ==
    strstr(fpath, StrGit) \/ strstr(fpath, StrSvn) \/ strstr(fpath, StrSwp)

\* lines 119-121 and 155-157: strip one leading "./"
Normalize(fpath) ==
    IF Len(fpath) >= 2 /\ fpath[1] = 46 /\ fpath[2] = 47
    THEN SubSeq(fpath, 3, Len(fpath))
    ELSE fpath

(***************************************************************************)
(* The file system the program runs in: the current directory holds the    *)
(* regular files a and .git, the directory d, which holds b and c, and the *)
(* empty directory e.  Each walk entry is what nftw hands to the callback. *)
(***************************************************************************)
Files == {"a", "b", "c", "g"}
\* the files the wrapped command works on: it reads, rewrites or removes a
\* and creates c; it leaves b alone, and g is filtered out by both walks
CmdFiles == {"a", "c"}

Ent(p, f, file) == [fpath |-> p, tflag |-> f, file |-> file]

\* the order in which nftw presents a tree (a directory before its content),
\* under each of the two readdir orders of the model
DirOrder(dir, k) ==
    IF dir = DirDot
    THEN IF k = 1
         THEN << Ent(<<46>>, "FTW_D", "none"),
                 Ent(<<46, 47, 97>>, "FTW_F", "a"),
                 Ent(<<46, 47, 46, 103, 105, 116>>, "FTW_F", "g"),
                 Ent(<<46, 47, 100>>, "FTW_D", "none"),
                 Ent(<<46, 47, 100, 47, 98>>, "FTW_F", "b"),
                 Ent(<<46, 47, 100, 47, 99>>, "FTW_F", "c"),
                 Ent(<<46, 47, 101>>, "FTW_D", "none") >>
         ELSE << Ent(<<46>>, "FTW_D", "none"),
                 Ent(<<46, 47, 101>>, "FTW_D", "none"),
                 Ent(<<46, 47, 100>>, "FTW_D", "none"),
                 Ent(<<46, 47, 100, 47, 99>>, "FTW_F", "c"),
                 Ent(<<46, 47, 100, 47, 98>>, "FTW_F", "b"),
                 Ent(<<46, 47, 46, 103, 105, 116>>, "FTW_F", "g"),
                 Ent(<<46, 47, 97>>, "FTW_F", "a") >>
    ELSE IF dir = DirE
    THEN << Ent(<<101>>, "FTW_D", "none") >>
    ELSE IF k = 1
         THEN << Ent(<<100>>, "FTW_D", "none"),
                 Ent(<<100, 47, 98>>, "FTW_F", "b"),
                 Ent(<<100, 47, 99>>, "FTW_F", "c") >>
         ELSE << Ent(<<100>>, "FTW_D", "none"),
                 Ent(<<100, 47, 99>>, "FTW_F", "c"),
                 Ent(<<100, 47, 98>>, "FTW_F", "b") >>

\* the -w lists of the model; d and e lie in . and so overlap with it
WatchLists ==
    { <<DirDot>>, <<DirD>>, <<DirE>>, <<DirDot, DirD>>, <<DirD, DirDot>> }

\* the normalized path each file is recorded under
PathOf(file) ==
    CASE file = "a" -> <<97>>
      [] file = "b" -> <<100, 47, 98>>
      [] file = "c" -> <<100, 47, 99>>
      [] OTHER -> <<46, 103, 105, 116>>

\* the files lying under a watch directory
FilesUnder(dir) ==
    IF dir = DirDot THEN {"a", "b", "c", "g"}
    ELSE IF dir = DirD THEN {"b", "c"}
    ELSE {}

(***************************************************************************)
(* The snapshot stores tree1 and tree2: binary search trees, <<>> or       *)
(* <<left, entry, right>>, ordered by pathcmp.                             *)
(***************************************************************************)
ZeroTime == <<0, 0>>

PathEntry(path, t1, t2) == [path |-> path, times1 |-> t1, times2 |-> t2]

pathcmp(pa, pb) == strcmp(pa.path, pb.path)

\* tsearch with the bug of adding an entry whose key is already in the tree
RECURSIVE tsearch_dup(_, _)
tsearch_dup(e, t) ==
    IF Len(t) = 0 THEN << <<>>, e, <<>> >>
    ELSE IF pathcmp(e, t[2]) < 0 THEN << tsearch_dup(e, t[1]), t[2], t[3] >>
    ELSE << t[1], t[2], tsearch_dup(e, t[3]) >>

\* tsearch(3): the tree with the entry added, unchanged if its key is there
RECURSIVE tsearch(_, _)
tsearch(e, t) ==
    IF Len(t) = 0 THEN << <<>>, e, <<>> >>
    ELSE IF pathcmp(e, t[2]) < 0 THEN << tsearch(e, t[1]), t[2], t[3] >>
    ELSE IF pathcmp(e, t[2]) > 0 THEN << t[1], t[2], tsearch(e, t[3]) >>
    ELSE t

\* tfind(3): <<the entry found>> or <<>>
RECURSIVE tfind(_, _)
tfind(e, t) ==
    IF Len(t) = 0 THEN <<>>
    ELSE IF pathcmp(e, t[2]) < 0 THEN tfind(e, t[1])
    ELSE IF pathcmp(e, t[2]) > 0 THEN tfind(e, t[3])
    ELSE << t[2] >>

\* twalk(3): the visits it makes, each <<entry, which>>
RECURSIVE twalk(_)
twalk(t) ==
    IF Len(t) = 0 THEN <<>>
    ELSE IF Len(t[1]) = 0 /\ Len(t[3]) = 0 THEN << <<t[2], "leaf">> >>
    ELSE << <<t[2], "preorder">> >> \o twalk(t[1])
         \o << <<t[2], "postorder">> >> \o twalk(t[3])
         \o << <<t[2], "endorder">> >>

\* the entries of a tree, as a set
RECURSIVE TreeEntries(_)
TreeEntries(t) ==
    IF Len(t) = 0 THEN {}
    ELSE TreeEntries(t[1]) \cup {t[2]} \cup TreeEntries(t[3])

(***************************************************************************)
(* The state of the process and of the file system.                        *)
(***************************************************************************)
VARIABLES
    pc,         \* where main is: start, probe, check, prewalk, command,
                \* postwalk, classify, exit
    cmdstr,     \* -c was given
    outfile,    \* -o was given
    verbosity,  \* the number of -V options
    watchdirs,  \* the -w list, split at the commas
    readdir,    \* the order in which this file system lists a directory
    widx,       \* the index of the watch directory the loop is at
    walk,       \* the entries the running nftw has still to hand over
    fs,         \* file -> [exists, atime, mtime]
    tmpfiles,   \* the watch directories that hold an audit.<pid>.tmp
    outOnDisk,  \* the -o file exists
    tree1,      \* the pre-run store
    tree2,      \* the post-run store
    visits,     \* the visits the running twalk has still to make
    out,        \* the lines written to fp, in order
    visited,    \* the paths post_walk has classified, in order
    rewritten,  \* the files whose timestamps utimensat has rewritten
    cmdOps,     \* the number of file operations the command has performed
    touched,    \* the files the command has read, written, created or removed
    cmdFailed,  \* system() returned non-zero
    rc,         \* main's rc
    nstats,     \* the probe's last stat of its temp file: <<atime, mtime>>
    fatal,      \* the error that ended the run: none, or the name of the check
    status      \* the exit status: <<>> while running, <<n>> after exit(n)

vars == << pc, cmdstr, outfile, verbosity, watchdirs, readdir, widx, walk, fs,
           tmpfiles, outOnDisk, tree1, tree2, visits, out, visited, rewritten,
           cmdOps, touched, cmdFailed, rc, nstats, fatal, status >>

Absent == [exists |-> FALSE, atime |-> ZeroTime, mtime |-> ZeroTime]
Present(at, mt) == [exists |-> TRUE, atime |-> at, mtime |-> mt]

\* what nftw will hand over: the tree in readdir order, without the files
\* that do not exist
NftwEntries(dir, k, files) ==
    SelectSeq(DirOrder(dir, k), LAMBDA e : e.file = "none" \/ files[e.file].exists)

Init ==
    /\ pc = "start"
    /\ cmdstr \in BOOLEAN
    /\ outfile \in BOOLEAN
    /\ verbosity \in 0..MaxVerbosity
    /\ watchdirs \in WatchLists
    /\ readdir \in 1..2
    /\ widx = 0
    /\ walk = <<>>
    /\ fs = [f \in Files |->
               CASE f = "a" -> Present(<<0, 0>>, <<0, 0>>)
                 [] f = "b" -> Present(<<0, 1>>, <<0, 1>>)
                 [] f = "g" -> Present(<<0, 0>>, <<0, 0>>)
                 [] OTHER -> Absent]
    /\ tmpfiles = {}
    /\ outOnDisk = FALSE
    /\ tree1 = <<>>
    /\ tree2 = <<>>
    /\ visits = <<>>
    /\ out = <<>>
    /\ visited = <<>>
    /\ rewritten = {}
    /\ cmdOps = 0
    /\ touched = {}
    /\ cmdFailed = FALSE
    /\ rc = EXIT_SUCCESS
    /\ nstats = << ZeroTime, ZeroTime >>
    /\ fatal = "none"
    /\ status = <<>>

\* exit(n) after the message `why` (die, insist, usage) or at the end of main
Exit(n, why) ==
    /\ pc' = "exit"
    /\ status' = << n >>
    /\ fatal' = why

(***************************************************************************)
(* main, lines 263-271: the usage check and the opening of the -o file.    *)
(* fopen(outfile, "w") creates the file, or fails.                         *)
(***************************************************************************)
Setup ==
    /\ pc = "start"
    /\ \E opened \in BOOLEAN :
         IF ~cmdstr
         THEN /\ Exit(EXIT_FAILURE, "usage")
              /\ UNCHANGED << outOnDisk, widx >>
         ELSE IF outfile /\ ~opened
         THEN /\ Exit(EXIT_FAILURE, "fopen")
              /\ UNCHANGED << outOnDisk, widx >>
         ELSE /\ outOnDisk' = outfile
              /\ pc' = "probe"
              /\ widx' = 1
              /\ UNCHANGED << status, fatal >>
    /\ UNCHANGED << cmdstr, outfile, verbosity, watchdirs, readdir, walk, fs,
                    tmpfiles, tree1, tree2, visits, out, visited, rewritten,
                    cmdOps, touched, cmdFailed, rc, nstats >>

(***************************************************************************)
(* main, lines 281-302: the timestamp probe of watchdirs[widx].  Each call *)
(* is wrapped in insist, so the first one that fails ends the process.     *)
(***************************************************************************)
ProbeCalls ==
    << "open(dir)", "close(dir)", "asprintf", "open(tmp,O_CREAT)", "write",
       "fstat", "futimens", "close(tmp)", "open(tmp)", "read", "close(tmp) 2",
       "stat", "unlink" >>

\* the temp file is on disk from the O_CREAT open until unlink succeeds
TmpOnDiskAfterFailureOf(call) ==
    call \in { "write", "fstat", "futimens", "close(tmp)", "open(tmp)", "read",
               "close(tmp) 2", "stat", "unlink" }

Probe ==
    /\ pc = "probe"
    /\ \E failAt \in 0..Len(ProbeCalls), at \in Times, mt \in Times :
         IF failAt > 0
         THEN /\ Exit(EXIT_FAILURE, ProbeCalls[failAt])
              /\ tmpfiles' =
                   IF TmpOnDiskAfterFailureOf(ProbeCalls[failAt])
                   THEN tmpfiles \cup {watchdirs[widx]}
                   ELSE tmpfiles
              /\ UNCHANGED nstats
         ELSE /\ nstats' = << at, mt >>
              /\ pc' = "check"
              /\ UNCHANGED << tmpfiles, status, fatal >>
    /\ UNCHANGED << cmdstr, outfile, verbosity, watchdirs, readdir, widx, walk,
                    fs, outOnDisk, tree1, tree2, visits, out, visited,
                    rewritten, cmdOps, touched, cmdFailed, rc >>

\* the verdict with the bug of comparing the seconds only
AtimeNotUpdated_sec_only(ns) == ns[1][1] < ns[2][1]

\* lines 303-305: the probe's verdict on its temp file
AtimeNotUpdated(ns) ==
    ns[1][1] < ns[2][1] \/ (ns[1][1] = ns[2][1] /\ ns[1][2] < ns[2][2])

(***************************************************************************)
(* main, lines 303-309: die if the read did not move the atime, else start *)
(* the pre-run nftw of the same directory.                                 *)
(***************************************************************************)
ProbeCheck ==
    /\ pc = "check"
    /\ IF AtimeNotUpdated(nstats)
       THEN /\ Exit(EXIT_FAILURE, "atimes not updated here")
            /\ UNCHANGED walk
       ELSE /\ pc' = "prewalk"
            /\ walk' = NftwEntries(watchdirs[widx], readdir, fs)
            /\ UNCHANGED << status, fatal >>
    /\ nstats' = << ZeroTime, ZeroTime >>
    /\ UNCHANGED << cmdstr, outfile, verbosity, watchdirs, readdir, widx, fs,
                    tmpfiles, outOnDisk, tree1, tree2, visits, out, visited,
                    rewritten, cmdOps, touched, cmdFailed, rc >>

\* times1 with the bug of not stepping the atime back
pre_times_not_behind(sb) == << << sb.mtime[1], 0 >>, sb.mtime >>

\* lines 127-130: times1 of a pre-run entry, <<forced atime, mtime>>
pre_times(sb) == << << sb.mtime[1] - 1, 0 >>, sb.mtime >>

(***************************************************************************)
(* nftw_pre_callback, lines 102-135, on the next entry of the walk.        *)
(***************************************************************************)
nftw_pre_callback ==
    /\ pc = "prewalk"
    /\ walk # <<>>
    /\ LET e == Head(walk) IN
         IF e.tflag # "FTW_F" \/ Excluded(e.fpath)
         THEN /\ walk' = Tail(walk)
              /\ UNCHANGED << pc, fs, tree1, rewritten, status, fatal >>
         ELSE LET p1 == PathEntry(Normalize(e.fpath), pre_times(fs[e.file]),
                                  << ZeroTime, ZeroTime >>)
              IN \E ok \in BOOLEAN :
                   IF ~ok
                   THEN /\ Exit(EXIT_FAILURE, "utimensat")
                        /\ UNCHANGED << walk, fs, tree1, rewritten >>
                   ELSE /\ fs' = [fs EXCEPT ![e.file].atime = p1.times1[1],
                                            ![e.file].mtime = p1.times1[2]]
                        /\ tree1' = tsearch(p1, tree1)
                        /\ rewritten' = rewritten \cup {e.file}
                        /\ walk' = Tail(walk)
                        /\ UNCHANGED << pc, status, fatal >>
    /\ UNCHANGED << cmdstr, outfile, verbosity, watchdirs, readdir, widx,
                    tmpfiles, outOnDisk, tree2, visits, out, visited, cmdOps, touched,
                    cmdFailed, rc, nstats >>

\* line 309: nftw returns -1
NftwPreFail ==
    /\ pc = "prewalk"
    /\ Exit(EXIT_FAILURE, "nftw")
    /\ UNCHANGED << cmdstr, outfile, verbosity, watchdirs, readdir, widx, walk,
                    fs, tmpfiles, outOnDisk, tree1, tree2, visits, out,
                    visited, rewritten, cmdOps, touched, cmdFailed, rc, nstats >>

\* lines 273 and 309-310: nftw returns 0; the loop goes to the next directory
NftwPreReturn ==
    /\ pc = "prewalk"
    /\ walk = <<>>
    /\ IF widx < Len(watchdirs)
       THEN /\ widx' = widx + 1
            /\ pc' = "probe"
       ELSE /\ widx' = 0
            /\ pc' = "command"
    /\ UNCHANGED << cmdstr, outfile, verbosity, watchdirs, readdir, walk, fs,
                    tmpfiles, outOnDisk, tree1, tree2, visits, out, visited,
                    rewritten, cmdOps, touched, cmdFailed, rc, nstats, fatal, status >>

(***************************************************************************)
(* system(cmdstr), line 332.  While main waits in system() the command     *)
(* works on the files: a read stamps the atime, a write the mtime, a       *)
(* creation both; utimensat(2) and clock steps let any timestamp appear.   *)
(***************************************************************************)
CmdCommon ==
    /\ pc = "command"
    /\ cmdOps < MaxCmdOps
    /\ cmdOps' = cmdOps + 1
    /\ UNCHANGED << pc, cmdstr, outfile, verbosity, watchdirs, readdir, widx,
                    walk, tmpfiles, outOnDisk, tree1, tree2, visits, out,
                    visited, rewritten, cmdFailed, rc, nstats, fatal, status >>

CmdRead ==
    /\ CmdCommon
    /\ \E f \in CmdFiles, t \in Times :
         /\ fs[f].exists
         /\ fs' = [fs EXCEPT ![f].atime = t]
         /\ touched' = touched \cup {f}

CmdWrite ==
    /\ CmdCommon
    /\ \E f \in CmdFiles, t \in Times :
         /\ fs[f].exists
         /\ fs' = [fs EXCEPT ![f].mtime = t]
         /\ touched' = touched \cup {f}

CmdCreate ==
    /\ CmdCommon
    /\ \E f \in CmdFiles, t \in Times :
         /\ ~fs[f].exists
         /\ fs' = [fs EXCEPT ![f] = Present(t, t)]
         /\ touched' = touched \cup {f}

CmdUnlink ==
    /\ CmdCommon
    /\ \E f \in CmdFiles :
         /\ fs[f].exists
         /\ fs' = [fs EXCEPT ![f] = Absent]
         /\ touched' = touched \cup {f}

\* rc with the bug of dropping the command's status
rc_after_system_dropped(old, failed) == old

\* lines 332-334: rc after system() returned
rc_after_system(old, failed) == IF failed THEN EXIT_FAILURE ELSE old

(***************************************************************************)
(* main, lines 332-337: system() returns, rc is set, and the post-run loop *)
(* starts the nftw of the first watch directory.  The echo of lines        *)
(* 312-330 writes to stderr and prefixes the command with "set -x"; it     *)
(* changes nothing the walks or the classifier read.                       *)
(***************************************************************************)
SystemReturn ==
    /\ pc = "command"
    /\ \E failed \in BOOLEAN :
         /\ cmdFailed' = failed
         /\ rc' = rc_after_system(rc, failed)
    /\ cmdOps' = 0
    /\ pc' = "postwalk"
    /\ widx' = 1
    /\ walk' = NftwEntries(watchdirs[1], readdir, fs)
    /\ UNCHANGED << cmdstr, outfile, verbosity, watchdirs, readdir, fs,
                    tmpfiles, outOnDisk, tree1, tree2, visits, out, visited,
                    rewritten, touched, nstats, fatal, status >>

\* lines 161-175: the post-run entry of a file, given the pre-run store
post_entry(path, sb, t1) ==
    LET p2 == PathEntry(path,
                        << << SentinelAtimeSec, 0 >>, << SentinelMtimeSec, 0 >> >>,
                        << sb.atime, sb.mtime >>)
        px == tfind(p2, t1)
    IN IF px # <<>> THEN [p2 EXCEPT !.times1 = px[1].times1] ELSE p2

(***************************************************************************)
(* nftw_post_callback, lines 137-179, on the next entry of the walk.       *)
(***************************************************************************)
nftw_post_callback ==
    /\ pc = "postwalk"
    /\ walk # <<>>
    /\ LET e == Head(walk) IN
         IF e.tflag # "FTW_F" \/ Excluded(e.fpath)
         THEN UNCHANGED tree2
         ELSE tree2' = tsearch(post_entry(Normalize(e.fpath), fs[e.file], tree1),
                               tree2)
    /\ walk' = Tail(walk)
    /\ UNCHANGED << pc, cmdstr, outfile, verbosity, watchdirs, readdir, widx,
                    fs, tmpfiles, outOnDisk, tree1, visits, out, visited,
                    rewritten, cmdOps, touched, cmdFailed, rc, nstats, fatal, status >>

\* line 337: nftw returns -1
NftwPostFail ==
    /\ pc = "postwalk"
    /\ Exit(EXIT_FAILURE, "nftw")
    /\ UNCHANGED << cmdstr, outfile, verbosity, watchdirs, readdir, widx, walk,
                    fs, tmpfiles, outOnDisk, tree1, tree2, visits, out,
                    visited, rewritten, cmdOps, touched, cmdFailed, rc, nstats >>

\* lines 336-340: nftw returns 0; the next directory, or twalk(tree2, post_walk)
NftwPostReturn ==
    /\ pc = "postwalk"
    /\ walk = <<>>
    /\ IF widx < Len(watchdirs)
       THEN /\ widx' = widx + 1
            /\ walk' = NftwEntries(watchdirs[widx + 1], readdir, fs)
            /\ UNCHANGED << pc, visits >>
       ELSE /\ widx' = 0
            /\ pc' = "classify"
            /\ visits' = twalk(tree2)
            /\ UNCHANGED walk
    /\ UNCHANGED << cmdstr, outfile, verbosity, watchdirs, readdir, fs,
                    tmpfiles, outOnDisk, tree1, tree2, out, visited, rewritten,
                    cmdOps, touched, cmdFailed, rc, nstats, fatal, status >>

\* the decision rule with the bug of comparing the mtime seconds only
prereq_of_mtime_sec_only(p) ==
    IF p.times2[2][1] > p.times1[2][1] THEN FALSE
    ELSE IF p.times2[1][1] <= p.times1[1][1] THEN FALSE
    ELSE IF p.times2[1][1] = p.times1[1][1] /\ p.times2[1][2] <= p.times1[1][2]
    THEN FALSE
    ELSE TRUE

\* the decision rule with the bug of taking an unmoved atime for a read
prereq_of_atime_unmoved(p) ==
    IF p.times2[2][1] > p.times1[2][1] THEN FALSE
    ELSE IF p.times2[2][1] = p.times1[2][1] /\ p.times2[2][2] > p.times1[2][2]
    THEN FALSE
    ELSE IF p.times2[1][1] < p.times1[1][1] THEN FALSE
    ELSE IF p.times2[1][1] = p.times1[1][1] /\ p.times2[1][2] < p.times1[1][2]
    THEN FALSE
    ELSE TRUE

\* lines 191-203: the decision rule
prereq_of(p) ==
    IF p.times2[2][1] > p.times1[2][1] THEN FALSE
    ELSE IF p.times2[2][1] = p.times1[2][1] /\ p.times2[2][2] > p.times1[2][2]
    THEN FALSE
    ELSE IF p.times2[1][1] <= p.times1[1][1] THEN FALSE
    ELSE IF p.times2[1][1] = p.times1[1][1] /\ p.times2[1][2] <= p.times1[1][2]
    THEN FALSE
    ELSE TRUE

\* lines 204-220: what one entry adds to fp; a line is the path, whether it is
\* a prerequisite line or a "## " line, and whether the times are printed
lines_of(p, v) ==
    IF prereq_of(p)
    THEN << [path |-> p.path, prereq |-> TRUE, times |-> (v # 0)] >>
    ELSE IF v # 0
    THEN << [path |-> p.path, prereq |-> FALSE, times |-> TRUE] >>
    ELSE <<>>

(***************************************************************************)
(* post_walk, lines 181-222, on the next visit of twalk.                   *)
(***************************************************************************)
post_walk ==
    /\ pc = "classify"
    /\ visits # <<>>
    /\ LET p == Head(visits)[1]
           which == Head(visits)[2]
       IN IF which = "postorder" \/ which = "leaf"
          THEN /\ out' = out \o lines_of(p, verbosity)
               /\ visited' = Append(visited, p.path)
          ELSE UNCHANGED << out, visited >>
    /\ visits' = Tail(visits)
    /\ UNCHANGED << pc, cmdstr, outfile, verbosity, watchdirs, readdir, widx,
                    walk, fs, tmpfiles, outOnDisk, tree1, tree2, rewritten,
                    cmdOps, touched, cmdFailed, rc, nstats, fatal, status >>

\* the test with the bug of not looking at the size
unlink_outfile_any_size(statOk, size) == statOk

\* line 346: the -o file is removed when stat succeeds and finds it empty
unlink_outfile(statOk, size) == statOk /\ size = 0

(***************************************************************************)
(* main, lines 342-351: twalk has returned; close the -o file, remove it   *)
(* if it is empty, and exit(rc).  stat finds the file iff it is on disk,   *)
(* and its size is zero iff no line was written.                           *)
(***************************************************************************)
Finish ==
    /\ pc = "classify"
    /\ visits = <<>>
    /\ \E unlinked \in BOOLEAN :
         IF outfile /\ unlink_outfile(outOnDisk, Len(out))
         THEN IF unlinked
              THEN /\ outOnDisk' = FALSE
                   /\ Exit(rc, "none")
              ELSE /\ Exit(EXIT_FAILURE, "unlink(outfile)")
                   /\ UNCHANGED outOnDisk
         ELSE /\ Exit(rc, "none")
              /\ UNCHANGED outOnDisk
    /\ UNCHANGED << cmdstr, outfile, verbosity, watchdirs, readdir, widx, walk,
                    fs, tmpfiles, tree1, tree2, visits, out, visited,
                    rewritten, cmdOps, touched, cmdFailed, rc, nstats >>

Next ==
    \/ Setup
    \/ Probe
    \/ ProbeCheck
    \/ nftw_pre_callback
    \/ NftwPreFail
    \/ NftwPreReturn
    \/ CmdRead
    \/ CmdWrite
    \/ CmdCreate
    \/ CmdUnlink
    \/ SystemReturn
    \/ nftw_post_callback
    \/ NftwPostFail
    \/ NftwPostReturn
    \/ post_walk
    \/ Finish

Spec == Init /\ [][Next]_vars

(***************************************************************************)
(* Vocabulary of the properties.                                           *)
(***************************************************************************)
\* main ran to its last line: exit(rc), no die and no failed insist
Done == pc = "exit" /\ fatal = "none"

\* the path is written to fp as a prerequisite line
Listed(path) == \E i \in 1..Len(out) : out[i].path = path /\ out[i].prereq

\* the regular files a walk of the watch directories records
Watched ==
    { f \in Files : /\ \E i \in 1..Len(watchdirs) : f \in FilesUnder(watchdirs[i])
                    /\ f # "g" }

\* the files under the watch directories before position n of the list
WatchedBefore(n) ==
    { f \in Files : /\ \E i \in 1..(n - 1) : f \in FilesUnder(watchdirs[i])
                    /\ f # "g" }

\* the entries of a store under a path
Under(t, path) == { e \in TreeEntries(t) : e.path = path }

\* byte-wise order of two paths, stated without strcmp
BytesLess(s, t) ==
    \E k \in 1..Len(t) :
        /\ \A j \in 1..(k - 1) : j <= Len(s) /\ s[j] = t[j]
        /\ (k > Len(s) \/ (k <= Len(s) /\ s[k] < t[k]))

\* the timestamps the files carry when the program starts
MtimeAtStart(f) == IF f = "b" THEN <<0, 1>> ELSE <<0, 0>>

Sentinel == << << SentinelAtimeSec, 0 >>, << SentinelMtimeSec, 0 >> >>

(***************************************************************************)
(* C1  Read detection, as claimed: when the run is over, every file that   *)
(* the pre-run walk recorded, that is still there with its mtime           *)
(* unchanged, and whose atime is strictly later than the recorded marker   *)
(* (seconds, then nanoseconds) is listed as a prerequisite.                *)
(***************************************************************************)
C1_ReadDetection ==
    Done =>
        \A f \in Watched : \A e1 \in Under(tree1, PathOf(f)) :
            ( /\ fs[f].exists
              /\ fs[f].mtime = e1.times1[2]
              /\ TimeLT(e1.times1[1], fs[f].atime) )
            => Listed(PathOf(f))

(***************************************************************************)
(* C2  Mtime dominance: an entry of the post-run store whose post-run      *)
(* mtime is later than its pre-run mtime (seconds, then nanoseconds) is    *)
(* never listed as a prerequisite, whatever its atimes are: every          *)
(* prerequisite line is for an entry whose mtime is not later.             *)
(***************************************************************************)
C2_MtimeDominance ==
    \A i \in 1..Len(out) :
        out[i].prereq =>
            \A e \in Under(tree2, out[i].path) :
                ~TimeLT(e.times1[2], e.times2[2])

\* an entry whose mtime and atime both advanced has been classified
C2_Witness ==
    /\ Done
    /\ \E e \in TreeEntries(tree2) :
         /\ TimeLT(e.times1[2], e.times2[2])
         /\ TimeLT(e.times1[1], e.times2[1])
         /\ \E i \in 1..Len(visited) : visited[i] = e.path

(***************************************************************************)
(* C3  Idempotence of non-reads: a watched regular file that the command   *)
(* neither read nor wrote is never listed as a prerequisite, at any        *)
(* verbosity.                                                              *)
(***************************************************************************)
C3_NonReadsNotListed ==
    \A f \in Files :
        (fs[f].exists /\ f \notin touched) => ~Listed(PathOf(f))

\* verbose run: an untouched file was classified and only got its "## " line,
\* while the file the command read is listed
C3_Witness ==
    /\ Done
    /\ verbosity > 0
    /\ "b" \notin touched
    /\ \E i \in 1..Len(out) : out[i].path = PathOf("b") /\ ~out[i].prereq
    /\ Listed(PathOf("a"))

(***************************************************************************)
(* C4  New-file safety, as claimed: an entry of the post-run store with no *)
(* pre-run entry carries the sentinel pre-run times and is never listed as *)
(* a prerequisite, whatever timestamps the new file has.                   *)
(***************************************************************************)
C4_NewFileSafety ==
    \A e \in TreeEntries(tree2) :
        Under(tree1, e.path) = {} =>
            (e.times1 = Sentinel /\ ~Listed(e.path))

\* every watched file that exists is in the post-run store with its times
PostWalkComplete ==
    \A f \in Watched :
        fs[f].exists =>
            \E e \in Under(tree2, PathOf(f)) :
                e.times2 = << fs[f].atime, fs[f].mtime >>

\* every entry of the post-run store has been classified
ClassifyComplete ==
    /\ visits = <<>>
    /\ \A e \in TreeEntries(tree2) :
         \E i \in 1..Len(visited) : visited[i] = e.path

(***************************************************************************)
(* C5  Command failure does not stop detection: after a failing command    *)
(* the process exits non-zero, and unless a fatal error ends the run the   *)
(* post-run walk of every watch directory and the classification have run  *)
(* to completion; after a successful command and no fatal error the exit   *)
(* status is zero.                                                         *)
(***************************************************************************)
C5_CommandFailure ==
    pc = "exit" =>
        /\ cmdFailed => status[1] # 0
        /\ (cmdFailed /\ fatal = "none") =>
               (PostWalkComplete /\ ClassifyComplete)
        /\ (cmdFailed /\ fatal # "none") =>
               fatal \in { "nftw", "unlink(outfile)" }
        /\ (~cmdFailed /\ fatal = "none") => status[1] = 0
        /\ fatal # "none" => status[1] # 0

\* the command failed, and the run went on to list a prerequisite
C5_Witness ==
    /\ Done
    /\ cmdFailed
    /\ status = << EXIT_FAILURE >>
    /\ Len(visited) > 1
    /\ \E i \in 1..Len(out) : out[i].prereq

\* no prerequisite line was written
NoPrereq == \A i \in 1..Len(out) : ~out[i].prereq

(***************************************************************************)
(* C6  Output emptiness cleanup, as claimed: when a run with -o reaches    *)
(* the end and no prerequisite was found, the output file is not on disk,  *)
(* at every verbosity and whatever the store holds.                        *)
(***************************************************************************)
C6_NoPrereqNoFile ==
    (Done /\ outfile /\ NoPrereq) => ~outOnDisk

(***************************************************************************)
(* C6, amended: when a run with -o reaches the end, the output file is     *)
(* gone exactly when nothing was written to it: no prerequisite was found  *)
(* and, if verbosity > 0, the store held no entry at all.  With            *)
(* verbosity > 0 and an entry in the store the file stays, holding the     *)
(* "## " lines.                                                            *)
(***************************************************************************)
C6_EmptyOutputRemoved ==
    (Done /\ outfile) =>
        (~outOnDisk <=> (NoPrereq /\ (verbosity = 0 \/ visited = <<>>)))

\* a verbose run over an empty store: the empty file was removed
C6_Witness ==
    /\ Done
    /\ outfile
    /\ verbosity > 0
    /\ visited = <<>>
    /\ ~outOnDisk

\* the pre-run walk has recorded f, left its atime behind its mtime and its
\* mtime as it was
Forced(f) ==
    /\ TimeLT(fs[f].atime, fs[f].mtime)
    /\ fs[f].mtime = MtimeAtStart(f)
    /\ \E e \in Under(tree1, PathOf(f)) :
         e.times1 = << fs[f].atime, fs[f].mtime >>

(***************************************************************************)
(* C7  Phase ordering: when the command starts, and while it runs, the     *)
(* pre-run walk of every watch directory has finished and every watched    *)
(* file that the command has not yet worked on is recorded with its atime  *)
(* strictly behind its mtime and its mtime as it was before the walk; when *)
(* the classifier starts or runs, the post-run walk of every watch         *)
(* directory has finished.                                                 *)
(***************************************************************************)
C7_PhaseOrdering ==
    /\ pc = "command" =>
           /\ walk = <<>>
           /\ \A f \in Watched \ touched : fs[f].exists => Forced(f)
    /\ pc = "classify" => (walk = <<>> /\ PostWalkComplete)

\* the command is about to start after the walks of two directories
C7_Witness ==
    /\ pc = "command"
    /\ touched = {}
    /\ Len(watchdirs) = 2
    /\ rewritten = {"a", "b"}

(***************************************************************************)
(* C8  Probe before walk, as claimed: when the probe of a watch directory  *)
(* ends the run with "atimes not updated here", no watched file has been   *)
(* rewritten and the pre-run store is empty.                               *)
(***************************************************************************)
C8_AbortBeforeAnyWalk ==
    fatal = "atimes not updated here" => (rewritten = {} /\ tree1 = <<>>)

(***************************************************************************)
(* C8, amended: when the probe of the directory at position n finds the    *)
(* temp file's atime earlier than its mtime, the run aborts at once,       *)
(* before the pre-run walk of that directory and of those after it: only   *)
(* the files under the directories before position n have been rewritten   *)
(* or stored, so none when n = 1.                                          *)
(***************************************************************************)
C8_AbortBeforeOwnWalk ==
    [][ (pc = "check" /\ TimeLT(nstats[1], nstats[2])) =>
          /\ pc' = "exit"
          /\ status' = << EXIT_FAILURE >>
          /\ fatal' = "atimes not updated here"
          /\ fs' = fs /\ tree1' = tree1 /\ rewritten' = rewritten
          /\ rewritten \subseteq WatchedBefore(widx)
          /\ \A e \in TreeEntries(tree1) :
               \E f \in WatchedBefore(widx) : e.path = PathOf(f)
          /\ (widx = 1 => (rewritten = {} /\ tree1 = <<>>)) ]_vars

\* the probe of the second directory failed after the walk of the first,
\* which left the file outside it alone
C8_Witness ==
    /\ fatal = "atimes not updated here"
    /\ widx = 2
    /\ rewritten = {"b"}
    /\ fs["a"].atime = fs["a"].mtime

(***************************************************************************)
(* C9  Probe temp-file cleanup, as claimed: whenever the process has       *)
(* exited, no watch directory holds an audit.<pid>.tmp.                    *)
(***************************************************************************)
C9_TmpFileDeleted ==
    pc = "exit" => tmpfiles = {}

(***************************************************************************)
(* C10  Sorted, unique classification: the paths post_walk has classified  *)
(* are strictly ascending in byte-wise order, so none comes twice, and so  *)
(* are the lines written; when the classifier is through, the classified   *)
(* paths are exactly the paths of the watched files that exist.            *)
(***************************************************************************)
C10_SortedUnique ==
    /\ \A i \in 1..(Len(visited) - 1) : BytesLess(visited[i], visited[i + 1])
    /\ \A i \in 1..(Len(out) - 1) : BytesLess(out[i].path, out[i + 1].path)
    /\ Done =>
         /\ { visited[i] : i \in 1..Len(visited) }
              = { PathOf(f) : f \in { g \in Watched : fs[g].exists } }
         /\ Len(visited) = Cardinality({ g \in Watched : fs[g].exists })

\* overlapping watch directories handed d/b and d/c to the walks twice
C10_Witness ==
    /\ Done
    /\ watchdirs = << DirDot, DirD >>
    /\ Len(visited) = 3
    /\ verbosity > 0
    /\ Len(out) = 3

====
